---- MODULE Spec2Model ----
(***************************************************************************)
(* Model of app/services/med_gemma_service.py: MedGemmaService, the client *)
(* that sends a student's clinical decision to a hosted LLM and parses the *)
(* reply into a four-field validation record, retrying on failure.         *)
(*                                                                         *)
(* Text is modelled as a sequence of lexemes (a lexeme is a short run of   *)
(* characters: a JSON punctuation mark, a word, a space, a newline, the    *)
(* triple backtick).  str.strip, str.split, the substring test and         *)
(* json.loads are computed on such sequences the way Python computes them  *)
(* on characters.                                                          *)
(***************************************************************************)
EXTENDS Integers, Sequences, FiniteSets, TLC

(***************************************************************************)
(* Lexemes                                                                 *)
(***************************************************************************)
\* BT stands for three backtick characters (the Markdown fence mark)
BT == "<bt3>"
JSONWORD == "json"
Q == "\""
ESCQ == "\\\""
WS == " "
NL == "\n"

K_ACC == "is_clinically_accurate"
K_SAFE == "safety_violation"
K_MISS == "missing_critical_info"
K_FEED == "feedback"

\* Range of a sequence
Range(s) == {s[i] : i \in 1..Len(s)}

(***************************************************************************)
(* Python str operations                                                   *)
(***************************************************************************)
IsSpace(c) == c \in {WS, NL}

\* sep in s: the least index where sep occurs in s, 0 when it does not
IndexOf(s, sep) ==
  LET hits == {i \in 1..(Len(s) - Len(sep) + 1) : SubSeq(s, i, i + Len(sep) - 1) = sep}
  IN IF hits = {} THEN 0 ELSE CHOOSE i \in hits : \A j \in hits : i <= j

Contains(s, sep) == IndexOf(s, sep) # 0

\* s.split(sep): left to right, non-overlapping
RECURSIVE Split(_, _)
Split(s, sep) ==
  LET i == IndexOf(s, sep)
  IN IF i = 0 THEN <<s>>
     ELSE <<SubSeq(s, 1, i - 1)>> \o Split(SubSeq(s, i + Len(sep), Len(s)), sep)

RECURSIVE LStrip(_)
LStrip(s) == IF s # <<>> /\ IsSpace(Head(s)) THEN LStrip(Tail(s)) ELSE s

RECURSIVE RStrip(_)
RStrip(s) ==
  IF s # <<>> /\ IsSpace(s[Len(s)]) THEN RStrip(SubSeq(s, 1, Len(s) - 1)) ELSE s

\* s.strip()
Strip(s) == RStrip(LStrip(s))

(***************************************************************************)
(* JSON values: Python objects json.loads produces, tagged by type.        *)
(*   dict  [t |-> "obj",  v |-> function from key text to value]           *)
(*   list  [t |-> "list", v |-> sequence of values]                        *)
(*   str   [t |-> "str",  v |-> text]                                      *)
(*   bool  [t |-> "bool", v |-> BOOLEAN]                                   *)
(*   int   [t |-> "num",  v |-> number of digits]                          *)
(*   None  [t |-> "null", v |-> <<>>]                                      *)
(***************************************************************************)
JStr(s) == [t |-> "str", v |-> s]
JBool(b) == [t |-> "bool", v |-> b]
JNum(n) == [t |-> "num", v |-> n]
JNull == [t |-> "null", v |-> <<>>]
JList(items) == [t |-> "list", v |-> items]
JObj(f) == [t |-> "obj", v |-> f]

\* dict(pairs): later keys override earlier ones
RECURSIVE DictOf(_)
DictOf(pairs) ==
  IF pairs = <<>> THEN <<>>
  ELSE LET n == Len(pairs)
       IN (pairs[n][1] :> pairs[n][2]) @@ DictOf(SubSeq(pairs, 1, n - 1))

(***************************************************************************)
(* json.loads                                                              *)
(***************************************************************************)
PFail == [ok |-> FALSE, val |-> JNull, pos |-> 0]
POk(v, p) == [ok |-> TRUE, val |-> v, pos |-> p]

\* the first index >= i that holds no whitespace (Len(s)+1 when there is none)
RECURSIVE SkipWS(_, _)
SkipWS(s, i) == IF i <= Len(s) /\ IsSpace(s[i]) THEN SkipWS(s, i + 1) ELSE i

\* the characters a string literal's body stands for: ESCQ is a quote
Unescape(body) == [i \in 1..Len(body) |-> IF body[i] = ESCQ THEN Q ELSE body[i]]

\* a string literal starting at s[i] = Q; a raw newline inside is a control
\* character, which json.loads rejects
ParseString(s, i) ==
  LET ends == {j \in (i + 1)..Len(s) : s[j] = Q}
  IN IF ends = {} THEN PFail
     ELSE LET j == CHOOSE e \in ends : \A f \in ends : e <= f
              body == SubSeq(s, i + 1, j - 1)
          IN IF NL \in Range(body) THEN PFail ELSE POk(JStr(Unescape(body)), j + 1)

\* a run of digits starting at s[i]
RECURSIVE DigitsEnd(_, _)
DigitsEnd(s, i) == IF i <= Len(s) /\ s[i] = "5" THEN DigitsEnd(s, i + 1) ELSE i

RECURSIVE ParseValue(_, _)
RECURSIVE ParseElems(_, _, _)
RECURSIVE ParseMembers(_, _, _)

ParseValue(s, i) ==
  IF i > Len(s) THEN PFail
  ELSE CASE s[i] = Q -> ParseString(s, i)
         [] s[i] = "{" ->
              LET j == SkipWS(s, i + 1)
              IN IF j <= Len(s) /\ s[j] = "}" THEN POk(JObj(<<>>), j + 1)
                 ELSE ParseMembers(s, j, <<>>)
         [] s[i] = "[" ->
              LET j == SkipWS(s, i + 1)
              IN IF j <= Len(s) /\ s[j] = "]" THEN POk(JList(<<>>), j + 1)
                 ELSE ParseElems(s, j, <<>>)
         [] s[i] = "true" -> POk(JBool(TRUE), i + 1)
         [] s[i] = "false" -> POk(JBool(FALSE), i + 1)
         [] s[i] = "null" -> POk(JNull, i + 1)
         [] s[i] = "5" -> POk(JNum(DigitsEnd(s, i) - i), DigitsEnd(s, i))
         [] OTHER -> PFail

ParseElems(s, i, acc) ==
  LET r == ParseValue(s, i)
      j == SkipWS(s, r.pos)
  IN IF ~r.ok \/ j > Len(s) THEN PFail
     ELSE IF s[j] = "," THEN ParseElems(s, SkipWS(s, j + 1), Append(acc, r.val))
     ELSE IF s[j] = "]" THEN POk(JList(Append(acc, r.val)), j + 1)
     ELSE PFail

ParseMembers(s, i, acc) ==
  IF i > Len(s) \/ s[i] # Q THEN PFail
  ELSE LET k == ParseString(s, i)
           c == SkipWS(s, k.pos)
       IN IF ~k.ok \/ c > Len(s) \/ s[c] # ":" THEN PFail
          ELSE LET r == ParseValue(s, SkipWS(s, c + 1))
                   j == SkipWS(s, r.pos)
                   acc2 == (k.val.v :> r.val) @@ acc
               IN IF ~r.ok \/ j > Len(s) THEN PFail
                  ELSE IF s[j] = "," THEN ParseMembers(s, SkipWS(s, j + 1), acc2)
                  ELSE IF s[j] = "}" THEN POk(JObj(acc2), j + 1)
                  ELSE PFail

\* json.loads(s): [ok, val]; ok = FALSE stands for json.JSONDecodeError
Loads(s) ==
  LET r == ParseValue(s, SkipWS(s, 1))
  IN IF r.ok /\ SkipWS(s, r.pos) = Len(s) + 1 THEN [ok |-> TRUE, val |-> r.val]
     ELSE [ok |-> FALSE, val |-> JNull]

(***************************************************************************)
(* json.dumps: the text of a value ("," and ":" are followed by a space)   *)
(***************************************************************************)
Escape(text) == [i \in 1..Len(text) |-> IF text[i] = Q THEN ESCQ ELSE text[i]]

RECURSIVE Digits(_)
Digits(n) == IF n = 0 THEN <<>> ELSE <<"5">> \o Digits(n - 1)

RECURSIVE Dumps(_)
RECURSIVE DumpsItems(_)
Dumps(val) ==
  CASE val.t = "str" -> <<Q>> \o Escape(val.v) \o <<Q>>
    [] val.t = "bool" -> IF val.v THEN <<"true">> ELSE <<"false">>
    [] val.t = "num" -> Digits(val.v)
    [] val.t = "null" -> <<"null">>
    [] val.t = "list" -> <<"[">> \o DumpsItems(val.v) \o <<"]">>

DumpsItems(items) ==
  IF items = <<>> THEN <<>>
  ELSE IF Len(items) = 1 THEN Dumps(items[1])
  ELSE Dumps(items[1]) \o <<",", WS>> \o DumpsItems(Tail(items))

\* the members of a dict in insertion order, pairs = << <<key text, value>>, ... >>
RECURSIVE DumpsMembers(_)
DumpsMembers(pairs) ==
  IF pairs = <<>> THEN <<>>
  ELSE LET m == <<Q>> \o Escape(pairs[1][1]) \o <<Q, ":", WS>> \o Dumps(pairs[1][2])
       IN IF Len(pairs) = 1 THEN m ELSE m \o <<",", WS>> \o DumpsMembers(Tail(pairs))

DumpsObj(pairs) == <<"{">> \o DumpsMembers(pairs) \o <<"}">>

(***************************************************************************)
(* Optional[str]                                                           *)
(***************************************************************************)
NoneV == [some |-> FALSE, v |-> <<>>]
Some(text) == [some |-> TRUE, v |-> text]
\* Python truth of an Optional[str]: None and "" are false
Truthy(o) == o.some /\ o.v # <<>>

\* s.strip(chars)
RECURSIVE StripChars(_, _)
StripChars(s, chars) ==
  IF s # <<>> /\ Head(s) \in chars THEN StripChars(Tail(s), chars)
  ELSE IF s # <<>> /\ s[Len(s)] \in chars THEN StripChars(SubSeq(s, 1, Len(s) - 1), chars)
  ELSE s

(***************************************************************************)
(* The credential lookup.  The .env file is                                *)
(*   [exists, readable, dotenv, decodes, lines]                            *)
(* readable: read_text does not raise an OSError; dotenv: python-dotenv    *)
(* reads the file's bindings; decodes: the encodings that decode it        *)
(* without UnicodeDecodeError (latin-1 decodes every file).                *)
(***************************************************************************)
KEYNAME == "HUGGINGFACE_API_KEY"
Encodings == <<"utf-8-sig", "utf-8", "latin-1">>

\* the value python-dotenv binds to KEYNAME: the last line KEYNAME=value
RECURSIVE DotenvBinding(_)
DotenvBinding(lines) ==
  IF lines = <<>> THEN NoneV
  ELSE LET line == Strip(lines[Len(lines)])
           parts == Split(line, <<"=">>)
       IN IF Len(parts) >= 2 /\ Strip(parts[1]) = <<KEYNAME>>
          THEN Some(StripChars(Strip(SubSeq(line, IndexOf(line, <<"=">>) + 1, Len(line))),
                               {Q, "'"}))
          ELSE DotenvBinding(SubSeq(lines, 1, Len(lines) - 1))

\* load_dotenv(dotenv_path=env_path, override=True): os.environ afterwards
LoadDotenv(env, file) ==
  IF file.exists /\ file.readable /\ file.dotenv /\ DotenvBinding(file.lines).some
  THEN DotenvBinding(file.lines) ELSE env

\* the inner loop over content.splitlines(): the first line that mentions the
\* name and holds "=" decides
RECURSIVE ScanLines(_)
ScanLines(lines) ==
  IF lines = <<>> THEN NoneV
  ELSE LET line == Strip(Head(lines))
       IN IF line = <<>> \/ Head(line) = "#" THEN ScanLines(Tail(lines))
          ELSE IF KEYNAME \in Range(line) /\ "=" \in Range(line)
          THEN LET after == SubSeq(line, IndexOf(line, <<"=">>) + 1, Len(line))
               IN Some(StripChars(StripChars(Strip(after), {Q}), {"'"}))
          ELSE ScanLines(Tail(lines))

\* the loop over encodings_to_try: a failed read moves on to the next encoding
RECURSIVE TryEncodings(_, _)
TryEncodings(file, encs) ==
  IF encs = <<>> THEN NoneV
  ELSE IF ~file.readable \/ Head(encs) \notin file.decodes
  THEN TryEncodings(file, Tail(encs))
  ELSE LET found == ScanLines(file.lines)
       IN IF found.some THEN found ELSE TryEncodings(file, Tail(encs))

\* _get_api_key_robust, given os.environ after load_dotenv
GetApiKeyRobust(env, file) ==
  IF Truthy(env) THEN Some(Strip(env.v))
  ELSE IF ~file.exists THEN NoneV
  ELSE TryEncodings(file, Encodings)

\* a check that lets the empty string through: "if self.api_key is None"
KeyMissing_NoneOnly(key) == ~key.some

\* __init__: "if not self.api_key"
KeyMissing(key) == ~Truthy(key)

(***************************************************************************)
(* validate_clinical_action                                                *)
(***************************************************************************)
MaxAttempts == 3

RequiredKeys == <<K_ACC, K_SAFE, K_MISS, K_FEED>>

FallbackFeedback ==
  <<"System Error: Unable to validate response at this time. Please try again.">>

\* the fail-safe response
Fallback ==
  JObj(DictOf(<< <<<<K_ACC>>, JBool(FALSE)>>,
                 <<<<K_SAFE>>, JBool(FALSE)>>,
                 <<<<K_MISS>>, JList(<<>>)>>,
                 <<<<K_FEED>>, JStr(FallbackFeedback)>> >>))

\* fence cleaning that knows the json fence only
CleanMarkdown_JsonFenceOnly(content) ==
  IF Contains(content, <<BT, JSONWORD>>)
  THEN Strip(Split(Split(content, <<BT, JSONWORD>>)[2], <<BT>>)[1])
  ELSE content

\* "Clean Markdown formatting if present"
CleanMarkdown(content) ==
  IF Contains(content, <<BT, JSONWORD>>)
  THEN Strip(Split(Split(content, <<BT, JSONWORD>>)[2], <<BT>>)[1])
  ELSE IF Contains(content, <<BT>>)
  THEN Strip(Split(Split(content, <<BT>>)[2], <<BT>>)[1])
  ELSE content

\* Python's "key in result": [ok, holds]; ok = FALSE stands for the TypeError
\* of a result that is no container (int, bool, None)
KeyIn(key, val) ==
  CASE val.t = "obj" -> [ok |-> TRUE, holds |-> <<key>> \in DOMAIN val.v]
    [] val.t = "list" -> [ok |-> TRUE, holds |-> \E i \in 1..Len(val.v) : val.v[i] = JStr(<<key>>)]
    [] val.t = "str" -> [ok |-> TRUE, holds |-> key \in Range(val.v)]
    [] OTHER -> [ok |-> FALSE, holds |-> FALSE]

\* any() written for all()
AllKeysIn_Any(val) == \E i \in 1..Len(RequiredKeys) : KeyIn(RequiredKeys[i], val).holds

\* all(key in result for key in required_keys)
AllKeysIn(val) == \A i \in 1..Len(RequiredKeys) : KeyIn(RequiredKeys[i], val).holds

Returned(val) == [status |-> "return", value |-> val, exc |-> "none"]
Raised(e) == [status |-> "raise", value |-> JNull, exc |-> e]

\* the try block after chat_completion has returned: what it returns or raises
\* for a response [kind, text]
TryBody(resp) ==
  IF resp.kind = "nochoices" THEN Raised("IndexError")
  ELSE IF resp.kind = "nocontent" THEN Raised("AttributeError")
  ELSE LET content == CleanMarkdown(Strip(resp.text))
           parsed == Loads(content)
       IN IF ~parsed.ok THEN Raised("JSONDecodeError")
          ELSE IF ~KeyIn(RequiredKeys[1], parsed.val).ok THEN Raised("TypeError")
          ELSE IF AllKeysIn(parsed.val) THEN Returned(parsed.val)
          ELSE Raised("ValueError")

\* a handler that names the parse errors only:
\* "except (json.JSONDecodeError, ValueError)"
Catches_ParseErrorsOnly(e) == e \in {"JSONDecodeError", "ValueError"}

\* "except Exception": every exception the try block raises is an Exception
Catches(e) ==
  e \in {"TransportError", "IndexError", "AttributeError", "JSONDecodeError", "TypeError",
        "ValueError"}

\* where control goes when the try block raises e
OnRaise(e) == IF Catches(e) THEN "except" ELSE "raised"

\* range(max_attempts): the loop goes on while another index is left
LoopContinues(next) == next < MaxAttempts

(***************************************************************************)
(* The caller's inputs and the prompt                                      *)
(***************************************************************************)
\* rules: the keys contraindications, required_history and required_exam, each
\* a list of strings
RuleItems(name) == <<<<name>>, JList(<<JStr(<<"x">>)>>)>>
RulesSet ==
  { << <<<<"contraindications">>, JList(<<>>)>>,
       <<<<"required_history">>, JList(<<>>)>>,
       <<<<"required_exam">>, JList(<<>>)>> >>,
    << RuleItems("contraindications"), RuleItems("required_history"),
       RuleItems("required_exam") >> }
StudentTexts == {<<"x">>}
ContextSummaries == {<<"x">>}

\* the f-string: the context, json.dumps(rules) and the quoted student action
SystemPrompt(student_text, rules, context_summary) ==
  <<"CASE CONTEXT:">> \o context_summary \o <<"MANDATORY CLINICAL RULES:">>
    \o DumpsObj(rules) \o <<"STUDENT ACTION:", Q>> \o student_text \o <<Q>>

(***************************************************************************)
(* What the remote endpoint may do on one call.  A reply carries, beside   *)
(* its text, the JSON value the text was written from and how it was       *)
(* wrapped; the client reads the text only.                                *)
(***************************************************************************)
MaxItems == 1

Feedbacks == { <<"x">>, <<"x", WS, BT, "5", BT>>, <<"x", Q, BT, JSONWORD, WS, "x">> }

RECURSIVE Items(_)
Items(n) == IF n = 0 THEN <<>> ELSE <<JStr(<<"x">>)>> \o Items(n - 1)

RecordMembers(acc, n, feedback) ==
  << <<<<K_ACC>>, JBool(acc)>>, <<<<K_SAFE>>, JBool(~acc)>>,
     <<<<K_MISS>>, JList(Items(n))>>, <<<<K_FEED>>, JStr(feedback)>> >>

\* JSON objects with all four required keys
FullObjects ==
  { RecordMembers(acc, n, f) : acc \in BOOLEAN, n \in 0..MaxItems, f \in Feedbacks }

\* JSON objects that lack a required key
PartialObjects ==
  { SubSeq(RecordMembers(TRUE, 0, <<"x">>), 1, 3),
    << <<<<K_FEED>>, JStr(<<K_ACC, K_SAFE, K_MISS>>)>> >> }

\* JSON values that are no object
NonObjects ==
  { JList(<<JStr(<<K_ACC>>), JStr(<<K_SAFE>>), JStr(<<K_MISS>>), JStr(<<K_FEED>>)>>),
    JStr(<<K_ACC, WS, K_SAFE, WS, K_MISS, WS, K_FEED>>),
    JStr(<<BT, "5", BT>>),
    JList(<<JStr(<<"x">>)>>),
    JNum(1), JBool(TRUE), JNull }

\* text that is no JSON
NonJson ==
  { <<"x">>, <<>>, <<BT, JSONWORD>>,
    <<"{", Q, K_FEED, Q, ":", WS, Q, "x">> }

Wrap(how, text) ==
  CASE how = "bare" -> text
    [] how = "padded" -> <<NL>> \o text \o <<NL>>
    [] how = "jsonfence" -> <<BT, JSONWORD, NL>> \o text \o <<NL, BT>>
    [] how = "plainfence" -> <<BT, NL>> \o text \o <<NL, BT>>

Wraps == {"bare", "padded", "jsonfence", "plainfence"}

TextReply(cls, how, text, val) ==
  [kind |-> "text", text |-> Wrap(how, text), cls |-> cls, wrap |-> how,
   inner |-> text, val |-> val]

Replies ==
  { TextReply("full", w, DumpsObj(m), JObj(DictOf(m))) : w \in Wraps, m \in FullObjects }
  \cup { TextReply("partial", w, DumpsObj(m), JObj(DictOf(m))) :
           w \in Wraps, m \in PartialObjects }
  \cup { TextReply("nonobject", w, Dumps(v), v) : w \in {"bare", "jsonfence"}, v \in NonObjects }
  \cup { TextReply("nonjson", w, t, JNull) : w \in {"bare", "jsonfence"}, t \in NonJson }

NoResponse == [kind |-> "none", text |-> <<>>, cls |-> "none", wrap |-> "bare",
               inner |-> <<>>, val |-> JNull]

\* chat_completion raises; or it returns no choice, or a message whose content
\* is None; or it replies
Outcomes ==
  { [NoResponse EXCEPT !.kind = "raise", !.cls = "transport"],
    [NoResponse EXCEPT !.kind = "nochoices", !.cls = "nocontent"],
    [NoResponse EXCEPT !.kind = "nocontent", !.cls = "nocontent"] }
  \cup Replies

(***************************************************************************)
(* The environments the service may be constructed in                      *)
(***************************************************************************)
NoFile == [exists |-> FALSE, readable |-> FALSE, dotenv |-> FALSE, decodes |-> {}, lines |-> <<>>]
File(dotenv, decodes, lines) ==
  [exists |-> TRUE, readable |-> TRUE, dotenv |-> dotenv, decodes |-> decodes, lines |-> lines]
AllEnc == {"utf-8-sig", "utf-8", "latin-1"}

Environments ==
  { <<NoneV, NoFile>>,
    <<Some(<<"k">>), NoFile>>,
    <<Some(<<WS>>), NoFile>>,
    <<Some(<<>>), File(TRUE, AllEnc, << <<KEYNAME, "=">> >>)>>,
    <<Some(<<"k">>), File(TRUE, AllEnc, << <<KEYNAME, "=">> >>)>>,
    <<NoneV, File(TRUE, AllEnc, << <<"OTHER", "=", "k">> >>)>>,
    <<NoneV, File(TRUE, AllEnc, << <<"#", KEYNAME, "=", "k">> >>)>>,
    <<NoneV, [File(FALSE, AllEnc, << <<KEYNAME, "=", "k">> >>) EXCEPT !.readable = FALSE]>>,
    <<NoneV, File(TRUE, AllEnc, << <<KEYNAME, "=", WS, "k2">> >>)>>,
    <<NoneV, File(FALSE, {"latin-1"}, << <<"#", "x">>, <<>>, <<KEYNAME, WS, "=", WS, Q, "k", Q>> >>)>> }

(***************************************************************************)
(* State                                                                   *)
(***************************************************************************)
VARIABLES
  environ,    \* os.environ["HUGGINGFACE_API_KEY"], an Optional[str]
  envfile,    \* the .env file of the project root
  api_key,    \* self.api_key
  client,     \* the token self.client was built with, None while there is no client
  pc,         \* "new", "ctor_raised", "idle", "call", "parse", "except",
              \* "exhausted", "returned", "raised"
  messages,   \* the messages of the call in progress
  attempt,    \* the loop variable
  response,   \* what chat_completion did on the current attempt
  calls,      \* chat_completion calls made by the call in progress
  sleeps,     \* time.sleep(1) calls made by the call in progress
  trace,      \* the calls and sleeps of the call in progress, in order
  hist,       \* per attempt of the call in progress: the kind of outcome, and the
              \* record a four-key JSON object reply stands for
  result,     \* what the call returned
  via         \* "success", "fallback", or "none" while the call runs

vars == <<environ, envfile, api_key, client, pc, messages, attempt, response,
          calls, sleeps, trace, hist, result, via>>

NoResult == [t |-> "unset", v |-> <<>>]

Init ==
  /\ \E e \in Environments : environ = e[1] /\ envfile = e[2]
  /\ api_key = NoneV
  /\ client = NoneV
  /\ pc = "new"
  /\ messages = <<>>
  /\ attempt = 0
  /\ response = NoResponse
  /\ calls = 0
  /\ sleeps = 0
  /\ trace = <<>>
  /\ hist = <<>>
  /\ result = NoResult
  /\ via = "none"

\* MedGemmaService()
Construct ==
  /\ pc = "new"
  /\ LET env == LoadDotenv(environ, envfile)
         key == GetApiKeyRobust(env, envfile)
     IN /\ environ' = env
        /\ api_key' = key
        /\ IF KeyMissing(key)
           THEN pc' = "ctor_raised" /\ client' = NoneV
           ELSE pc' = "idle" /\ client' = key
  /\ UNCHANGED <<envfile, messages, attempt, response, calls, sleeps, trace, hist,
                 result, via>>

\* validate_clinical_action is entered: the prompt is rendered, the loop starts
Validate(student_text, rules, context_summary) ==
  /\ pc \in {"idle", "returned"}
  /\ messages' = <<[role |-> "user",
                    content |-> SystemPrompt(student_text, rules, context_summary)]>>
  /\ attempt' = 0
  /\ response' = NoResponse
  /\ calls' = 0
  /\ sleeps' = 0
  /\ trace' = <<>>
  /\ hist' = <<>>
  /\ result' = NoResult
  /\ via' = "none"
  /\ pc' = "call"
  /\ UNCHANGED <<environ, envfile, api_key, client>>

\* self.client.chat_completion(...) on the current attempt
ChatCompletion(o) ==
  /\ pc = "call"
  /\ calls' = calls + 1
  /\ trace' = Append(trace, "call")
  /\ hist' = Append(hist, [cls |-> o.cls, val |-> IF o.cls = "full" THEN o.val ELSE JNull])
  /\ response' = o
  /\ pc' = IF o.kind = "raise" THEN OnRaise("TransportError") ELSE "parse"
  /\ UNCHANGED <<environ, envfile, api_key, client, messages, attempt, sleeps, result, via>>

\* the rest of the try block
ParseReply ==
  /\ pc = "parse"
  /\ LET r == TryBody(response)
     IN IF r.status = "return"
        THEN result' = r.value /\ via' = "success" /\ pc' = "returned"
        ELSE result' = result /\ via' = via /\ pc' = OnRaise(r.exc)
  /\ UNCHANGED <<environ, envfile, api_key, client, messages, attempt, response,
                 calls, sleeps, trace, hist>>

\* the except block: the warning, time.sleep(1), then the loop's next index
Except ==
  /\ pc = "except"
  /\ sleeps' = sleeps + 1
  /\ trace' = Append(trace, "sleep")
  /\ attempt' = attempt + 1
  /\ pc' = IF LoopContinues(attempt + 1) THEN "call" ELSE "exhausted"
  /\ UNCHANGED <<environ, envfile, api_key, client, messages, response, calls, hist,
                 result, via>>

\* after the loop: the fail-safe response
ReturnFallback ==
  /\ pc = "exhausted"
  /\ result' = Fallback
  /\ via' = "fallback"
  /\ pc' = "returned"
  /\ UNCHANGED <<environ, envfile, api_key, client, messages, attempt, response,
                 calls, sleeps, trace, hist>>

Next ==
  \/ Construct
  \/ \E s \in StudentTexts, r \in RulesSet, c \in ContextSummaries : Validate(s, r, c)
  \/ \E o \in Outcomes : ChatCompletion(o)
  \/ ParseReply
  \/ Except
  \/ ReturnFallback

Spec == Init /\ [][Next]_vars

(***************************************************************************)
(* Properties                                                              *)
(***************************************************************************)
HistKinds == {hist[i].cls : i \in 1..Len(hist)}

\* the attempt that received the first four-key JSON object reply, 0 if none
FirstFull ==
  LET full == {i \in 1..Len(hist) : hist[i].cls = "full"}
  IN IF full = {} THEN 0 ELSE CHOOSE i \in full : \A j \in full : i <= j

HasRequiredKeys(val) ==
  val.t = "obj" /\ \A i \in 1..Len(RequiredKeys) : <<RequiredKeys[i]>> \in DOMAIN val.v

\* the current response with its wrapping taken off
Unwrapped == [response EXCEPT !.text = response.inner]

\* C1: validate_clinical_action never raises to the caller: whatever the
\* endpoint does on each attempt, no exception propagates, and a call that has
\* ended has returned a value, a parsed reply or the fallback record.
C1_NeverRaises ==
  /\ pc # "raised"
  /\ pc = "returned" =>
       /\ via \in {"success", "fallback"}
       /\ result # NoResult
       /\ via = "fallback" => result = Fallback

C1_Witness ==
  /\ pc = "returned"
  /\ via = "fallback"
  /\ {"transport", "nocontent", "nonobject"} \subseteq HistKinds

\* C2: a reply whose text is a JSON object with all four required keys is
\* returned as exactly the record it encodes, whatever its string fields hold.
C2_ReturnsRecord ==
  (response.cls = "full" /\ response.wrap = "bare" /\ pc # "parse") =>
    (pc = "returned" /\ via = "success" /\ result = response.val)

\* C3: a reply wrapped in a json fence or a plain fence has the outcome of the
\* same reply without the fence: the same record returned, or a failed attempt
\* in both cases.
C3_FenceEquiv ==
  (response.kind = "text" /\ response.wrap \in {"jsonfence", "plainfence"}) =>
    /\ pc = "except" => TryBody(Unwrapped).status = "raise"
    /\ (pc = "returned" /\ via = "success") =>
         (TryBody(Unwrapped).status = "return" /\ TryBody(Unwrapped).value = result)

C3_Witness ==
  /\ pc = "returned"
  /\ via = "success"
  /\ response.wrap = "plainfence"
  /\ response.cls = "full"

C5_FirstWellFormedWins ==
  (pc = "returned" /\ FirstFull # 0) => result = hist[FirstFull].val

\* C6: a call makes at most 3 chat_completion calls, and as many as the index
\* of the first four-key JSON object reply, or 3 when there is none.
C6_CallCount ==
  /\ calls <= MaxAttempts
  /\ pc = "returned" => calls = (IF FirstFull # 0 THEN FirstFull ELSE MaxAttempts)

\* C7: every value returned is a mapping holding the four required keys; a
\* reply that is JSON but no such object is never returned.
C7_ResultShape == pc = "returned" => HasRequiredKeys(result)

\* the variable is unset or blank, and no uncommented line of a readable .env
\* file names the key
NoKeyAnywhere ==
  /\ ~(environ.some /\ Strip(environ.v) # <<>>)
  /\ \/ ~envfile.exists
     \/ ~envfile.readable
     \/ \A i \in 1..Len(envfile.lines) :
          \/ KEYNAME \notin Range(envfile.lines[i])
          \/ Head(Strip(envfile.lines[i])) = "#"

C8_State ==
  /\ (pc # "new" /\ (NoKeyAnywhere \/ ~Truthy(api_key))) =>
       (pc = "ctor_raised" /\ client = NoneV)
  /\ pc \notin {"new", "ctor_raised"} => (Truthy(api_key) /\ client = api_key)

\* C8: a lookup that yields no non-empty key makes construction raise and
\* leaves no client; an environment with no key in the variable and no line
\* naming it in a readable .env file is such a case; every constructed
\* instance holds a non-empty api_key, and no later step changes it.
C8_Credential == [](C8_State) /\ [][pc # "new" => api_key' = api_key]_vars

C8_Witness ==
  /\ pc = "ctor_raised"
  /\ envfile.exists
  /\ api_key = Some(<<>>)

\* C9: the call moves ATTEMPTING(1) -> ATTEMPTING(2) -> ATTEMPTING(3): a
\* four-key JSON object reply ends the call in SUCCESS, any other outcome leads
\* to the next attempt, or to FALLBACK after attempt 3; no attempt is skipped
\* or repeated.
C9_StateMachine ==
  /\ attempt \in 0..MaxAttempts
  /\ pc \in {"call", "exhausted"} => Len(hist) = attempt
  /\ pc \in {"parse", "except"} => Len(hist) = attempt + 1
  /\ pc = "except" => hist[Len(hist)].cls # "full"
  /\ (pc = "returned" /\ via = "success") => hist[Len(hist)].cls = "full"
  /\ (pc = "returned" /\ via = "fallback") => (Len(hist) = MaxAttempts /\ FirstFull = 0)

\* C10: delays happen between attempts only: a call sleeps at most twice, and
\* never after its last attempt.
C10_DelayBetween ==
  /\ sleeps <= MaxAttempts - 1
  /\ pc = "returned" => (trace # <<>> /\ trace[Len(trace)] = "call")

====
